---- MODULE Spec2Model ----
(***************************************************************************)
(* State-machine model of the storage plugins of sagfsdriver:             *)
(*   src/src/sagfsdriver/plugins/local/local.py   (plugin = "local")      *)
(*   src/src/sagfsdriver/plugins/irods/irods.py   (plugin = "irods")      *)
(* One plugin instance, one driver thread ("drv") calling the query       *)
(* surface, one raw-event thread ("evt") running on_update_detected.      *)
(* Paths are sequences of one-character strings.  A second specification, *)
(* PathSpec, applies the path conversions to every path of a bounded set. *)
(***************************************************************************)
EXTENDS Integers, Sequences, FiniteSets, TLC

\* ------------------------------------------------------------- bounds
\* Number of driver calls (connect, close, queries, ...) in one behaviour.
MaxOps == 3
\* Number of backend changes (create, modify, delete, move) in one behaviour.
MaxChg == 2
\* Length of the longest path the path conversions are applied to.
MaxLen == 4

\* -------------------------------------------------------------- paths
\* str.encode('ascii','ignore'): the characters that survive.
AsciiChars == {"/", "d", "x", "y"}

encode_ascii_ignore(path) == SelectSeq(path, LAMBDA c : c \in AsciiChars)

startswith(path, prefix) ==
    /\ Len(prefix) <= Len(path)
    /\ SubSeq(path, 1, Len(prefix)) = prefix

RECURSIVE rstrip_slash(_)
rstrip_slash(path) ==
    IF path # <<>> /\ path[Len(path)] = "/"
    THEN rstrip_slash(SubSeq(path, 1, Len(path) - 1))
    ELSE path

\* config["dataset_root"] as given, and self.dataset_root as __init__ keeps it.
config_dataset_root == <<"/", "d", "/">>

dataset_root == rstrip_slash(encode_ascii_ignore(config_dataset_root))

\* _make_localfs_path / _make_irods_path (the two are the same text).
make_backend_path(path) ==
    IF startswith(path, dataset_root) THEN path
    ELSE IF startswith(path, <<"/">>) THEN dataset_root \o path
    ELSE dataset_root \o <<"/">> \o path

\* A conversion that leaves the dataset root in place.
make_driver_path_NoStrip(path) == path

\* _make_driver_path
make_driver_path(path) ==
    IF startswith(path, dataset_root)
    THEN SubSeq(path, Len(dataset_root) + 1, Len(path))
    ELSE path

\* The entries of the dataset the backend can hold (native paths), and the
\* paths the driver passes to the query surface (canonical paths).
FileX == dataset_root \o <<"/", "x">>
FileY == dataset_root \o <<"/", "y">>
Files == {FileX, FileY}
DrvPaths == {<<"/", "x">>, <<"/">>}

\* The paths the conversions are applied to: every string over PathChars
\* that is rooted at "/" and at most MaxLen long.
PathChars == {"/", "d", "x"}

RootedPaths ==
    UNION {{p \in [1..n -> PathChars] : p[1] = "/"} : n \in 1..MaxLen}

\* The backend paths the stat cache can be keyed by.
CacheKeys == {make_backend_path(p) : p \in DrvPaths \cup {make_driver_path(f) : f \in Files}}

NoEntry == [kind |-> "none", ver |-> 0]

\* -------------------------------------------------------------- state
Threads == {"drv", "evt"}

VARIABLES
    plugin,           \* "local" | "irods": which plugin_impl this instance is
    role,             \* "DISCOVER" | "PASSIVE": self.role
    rootExists,       \* the dataset root exists in the backend
    fs,               \* backend: Files -> [ex, ver]; ver counts the changes
    cache,            \* irods_client stat cache: backend path -> entry
    notification_cb,  \* "None" | "cb": self.notification_cb
    lock,             \* self.lock (threading.RLock): [owner, count]
    watch_directory,  \* "unset" | "set": the attribute self.watch_directory
    notifier,         \* "none" | "new" | "running" | "stopped"
    watches,          \* the watch manager holds the watch on dataset_root
    session,          \* "new" | "connected" | "closed": self.irods
    released,         \* [rm_watch, stop, session]: release calls since arming
    queue,            \* raw events not yet handed to the handler
    th,               \* per thread: the call in progress
    ret,              \* per thread: how its last call ended (NoRet during a call)
    log,              \* the batches the observer was invoked with, in order
    invalidated,      \* per cache key: version of the latest raw event whose
                      \* handling has passed the bridge's invalidation
    nops,             \* driver calls made
    nchg,             \* backend changes made
    conv              \* PathSpec: the path conversion in progress

vars == <<plugin, role, rootExists, fs, cache, notification_cb, lock,
          watch_directory, notifier, watches, session, released, queue,
          th, ret, log, invalidated, nops, nchg, conv>>

config == <<plugin, role, rootExists>>
watchState == <<watch_directory, notifier, watches, session, released>>

NoStat == [kind |-> "none", path |-> <<>>, ver |-> 0]

\* Summary of the raw event the raw-event thread handled before this one.
NoPrev == [raw |-> "none", path |-> <<>>, cbok |-> FALSE, n0 |-> 0]

\* A call in progress.  pc: "idle" | "lock" (at _lock) | "cs", "cs2" (inside
\* the section) | "deliver" (at the observer call) | "in_cb" (observer
\* running); op, path: the guarded operation and its argument; ctx: "drv"
\* (called by the driver) | "bridge" (inside on_update_detected) | "cb"
\* (called by the observer while it runs; reentered: the observer has made
\* its call).  For the
\* bridge: raw, operation, ver (of the raw event), st (what stat returned),
\* cbok (every read of notification_cb found an observer), n0 (batches
\* delivered before this event) and prev.  For the driver's stat: ver is
\* invalidated[key] at the call.
IdleFrame ==
    [pc |-> "idle", op |-> "none", path |-> <<>>, ctx |-> "none",
     raw |-> "none", operation |-> "none", ver |-> 0, st |-> NoStat,
     h0 |-> 0, cbok |-> FALSE, n0 |-> 0, prev |-> NoPrev,
     reentered |-> FALSE]

\* How a call ended.  status: "ok" | "raise"; exc: the error raised; st, flag,
\* buf: the value returned; h0, h1: the caller's hold count on the guard at
\* entry and at exit.  For on_update_detected: the frame's raw, operation,
\* ver, cbok, n0 and prev, and missing (its stat found no entry).  For
\* is_dir called by the driver: missing (the path was not in the backend
\* when is_dir ended).  For
\* connect and close: armfail (arming failed in this connect), streak (close
\* calls in a row) and armed0 (the plugin was connected when the row of
\* close calls began).
NoRet ==
    [op |-> "none", path |-> <<>>, status |-> "none", exc |-> "none",
     st |-> NoStat, flag |-> FALSE, buf |-> "None", h0 |-> 0, h1 |-> 0,
     raw |-> "none", operation |-> "none", ver |-> 0, cbok |-> FALSE,
     n0 |-> 0, prev |-> NoPrev, missing |-> FALSE, armfail |-> FALSE,
     streak |-> 0, armed0 |-> FALSE]

\* A path conversion.  stage: "none" | "canonical" (p is a canonical path to
\* convert) | "backend" (bp is its backend path) | "done" (dp is the
\* canonical path of bp) | "event" (p is the pathname of a raw event raw) |
\* "entry" (dp, st are the path and the stat of the change entry built for
\* it; bp is the path the stat looked up) | "raised" (the stat found nothing).
NoConv ==
    [stage |-> "none", p |-> <<>>, bp |-> <<>>, dp |-> <<>>, raw |-> "none",
     st |-> NoStat]

\* plugin_impl.__init__ (local.py 76-100, irods.py 41-93).
Constructed ==
    /\ plugin \in {"local", "irods"}
    /\ role \in {"DISCOVER", "PASSIVE"}
    /\ rootExists \in BOOLEAN
    /\ fs = [f \in Files |-> [ex |-> rootExists /\ f = FileX, ver |-> 0]]
    /\ cache = [k \in CacheKeys |-> NoEntry]
    /\ notification_cb = "None"
    /\ lock = [owner |-> "none", count |-> 0]
    /\ watch_directory = "unset"
    /\ notifier = IF plugin = "local" /\ role = "DISCOVER" THEN "new" ELSE "none"
    /\ watches = FALSE
    /\ session = IF plugin = "irods" THEN "new" ELSE "none"
    /\ released = [rm_watch |-> 0, stop |-> 0, session |-> 0]
    /\ queue = <<>>
    /\ th = [t \in Threads |-> IdleFrame]
    /\ ret = [t \in Threads |-> NoRet]
    /\ log = <<>>
    /\ invalidated = [k \in CacheKeys |-> 0]
    /\ nops = 0
    /\ nchg = 0

Init == Constructed /\ conv = NoConv

\* ------------------------------------------------------------ backend
\* What the backend holds at a native path (os.stat, os.path.exists,
\* irods backend): the dataset root is a directory, Files are plain files.
BackendLookup(bp) ==
    LET p == rstrip_slash(bp) IN
    IF p = dataset_root
    THEN IF rootExists THEN [kind |-> "dir", ver |-> 0]
         ELSE [kind |-> "none", ver |-> 0]
    ELSE IF p \in Files /\ fs[p].ex THEN [kind |-> "file", ver |-> fs[p].ver]
    ELSE [kind |-> "none", ver |-> 0]

\* The raw-event source reports a change: the inotify watch of the local
\* plugin; for the irods plugin the feeder of a connected DISCOVER instance.
SourceArmed ==
    IF plugin = "local" THEN watches
    ELSE role = "DISCOVER" /\ session = "connected"

\* The raw-event thread is running: the started notifier thread of the local
\* plugin, the feeder of the connected irods plugin.
SourceRunning ==
    IF plugin = "local" THEN notifier = "running"
    ELSE role = "DISCOVER" /\ session = "connected"

Emit(evs) == queue' = IF SourceArmed THEN queue \o evs ELSE queue

RawEvent(raw, f, v) == [raw |-> raw, pathname |-> f, ver |-> v]

BackendCreate(f) ==
    /\ rootExists /\ nchg < MaxChg /\ ~fs[f].ex
    /\ fs' = [fs EXCEPT ![f] = [ex |-> TRUE, ver |-> @.ver + 1]]
    /\ Emit(<<RawEvent("IN_CREATE", f, fs[f].ver + 1)>>)
    /\ nchg' = nchg + 1
    /\ UNCHANGED <<conv, config, cache, notification_cb, lock, watchState, th, ret,
                   log, invalidated, nops>>

BackendModify(f) ==
    /\ rootExists /\ nchg < MaxChg /\ fs[f].ex
    /\ fs' = [fs EXCEPT ![f] = [ex |-> TRUE, ver |-> @.ver + 1]]
    /\ Emit(<<RawEvent("IN_MODIFY", f, fs[f].ver + 1)>>)
    /\ nchg' = nchg + 1
    /\ UNCHANGED <<conv, config, cache, notification_cb, lock, watchState, th, ret,
                   log, invalidated, nops>>

BackendDelete(f) ==
    /\ rootExists /\ nchg < MaxChg /\ fs[f].ex
    /\ fs' = [fs EXCEPT ![f] = [ex |-> FALSE, ver |-> @.ver]]
    /\ Emit(<<RawEvent("IN_DELETE", f, fs[f].ver)>>)
    /\ nchg' = nchg + 1
    /\ UNCHANGED <<conv, config, cache, notification_cb, lock, watchState, th, ret,
                   log, invalidated, nops>>

BackendMove(a, b) ==
    /\ rootExists /\ nchg < MaxChg /\ a # b /\ fs[a].ex /\ ~fs[b].ex
    /\ fs' = [fs EXCEPT ![a] = [ex |-> FALSE, ver |-> @.ver],
                        ![b] = [ex |-> TRUE, ver |-> @.ver + 1]]
    /\ Emit(<<RawEvent("IN_MOVED_FROM", a, fs[a].ver),
              RawEvent("IN_MOVED_TO", b, fs[b].ver + 1)>>)
    /\ nchg' = nchg + 1
    /\ UNCHANGED <<conv, config, cache, notification_cb, lock, watchState, th, ret,
                   log, invalidated, nops>>

\* The attributes of the dataset root itself change (chmod, touch): the watch
\* on the root reports IN_ATTRIB with the root as pathname.  The root has no
\* content version.
BackendAttribRoot ==
    /\ rootExists /\ nchg < MaxChg
    /\ Emit(<<RawEvent("IN_ATTRIB", dataset_root, 0)>>)
    /\ nchg' = nchg + 1
    /\ UNCHANGED <<conv, config, fs, cache, notification_cb, lock, watchState,
                   th, ret, log, invalidated, nops>>

\* ---------------------------------------------------- concurrency guard
HoldCount(t) == IF lock.owner = t THEN lock.count ELSE 0

\* A guard that lets any caller in (a plain flag instead of an owner check).
CanAcquire_NoOwnerCheck(t) == t \in Threads

\* threading.RLock.acquire: free, or already held by the caller.
CanAcquire(t) == lock.owner \in {"none", t}

Acquired(t) == [owner |-> t, count |-> HoldCount(t) + 1]

\* threading.RLock.release by the owner.
Released ==
    IF lock.count <= 1 THEN [owner |-> "none", count |-> 0]
    ELSE [lock EXCEPT !.count = @ - 1]

\* _lock(): blocks until the guard can be taken, then enters the section.
Lock(t) ==
    /\ th[t].pc = "lock"
    /\ CanAcquire(t)
    /\ lock' = Acquired(t)
    /\ th' = [th EXCEPT ![t].pc = "cs"]
    /\ UNCHANGED <<conv, config, fs, cache, notification_cb, watchState, queue, ret,
                   log, invalidated, nops, nchg>>

InSection(t) == th[t].pc \in {"cs", "cs2"}

\* ------------------------------------------------------- query surface
GuardedOps == {"stat", "exists", "list_dir", "is_dir", "read", "clear_cache"}

CacheKey(path) == make_backend_path(encode_ascii_ignore(path))

Frame(op, path, ctx, t) ==
    [IdleFrame EXCEPT !.pc = "lock", !.op = op, !.path = path, !.ctx = ctx,
                      !.h0 = HoldCount(t),
                      !.ver = IF op = "stat" THEN invalidated[CacheKey(path)]
                              ELSE 0]

\* The driver calls a guarded operation; clear_cache also takes None (<<>>).
\* clear_cache of the local plugin is "pass": it returns at once.
DrvCall(op, path) ==
    /\ th["drv"].pc = "idle" /\ nops < MaxOps
    /\ op = "clear_cache" \/ path # <<>>
    /\ nops' = nops + 1
    /\ IF op = "clear_cache" /\ plugin = "local"
       THEN /\ ret' = [ret EXCEPT !["drv"] =
                  [NoRet EXCEPT !.op = op, !.path = path, !.status = "ok",
                                !.h0 = HoldCount("drv"), !.h1 = HoldCount("drv")]]
            /\ th' = th
       ELSE /\ th' = [th EXCEPT !["drv"] = Frame(op, path, "drv", "drv")]
            /\ ret' = [ret EXCEPT !["drv"] = NoRet]
    /\ UNCHANGED <<conv, config, fs, cache, notification_cb, lock, watchState, queue,
                   log, invalidated, nchg>>

\* How a call ends: normally, or with an error that propagates to the caller
\* of the outermost call (on_update_detected for the bridge's own stat and
\* for a call the observer makes).
Returned(f) ==
    [NoRet EXCEPT !.op = IF f.ctx \in {"bridge", "cb"}
                         THEN "on_update_detected" ELSE f.op,
                  !.path = f.path, !.status = "ok", !.h0 = f.h0,
                  !.raw = f.raw, !.operation = f.operation, !.ver = f.ver,
                  !.cbok = f.cbok, !.n0 = f.n0, !.prev = f.prev]

Raised(f, exc) ==
    [Returned(f) EXCEPT !.status = "raise", !.exc = exc,
                        !.missing = (f.ctx = "bridge" /\ f.op = "stat")]

\* The call of thread t is over: the guard is left as newlock, the result
\* records the hold count the thread is left with.  A call the observer made
\* that returns normally takes the thread back into the observer.
Finish(t, newlock, r) ==
    /\ lock' = newlock
    /\ IF th[t].ctx = "cb" /\ r.status = "ok"
       THEN /\ th' = [th EXCEPT ![t] =
                  [@ EXCEPT !.pc = "in_cb", !.op = "none", !.ctx = "bridge",
                            !.reentered = TRUE]]
            /\ ret' = ret
       ELSE /\ th' = [th EXCEPT ![t] = IdleFrame]
            /\ ret' = [ret EXCEPT ![t] =
                  [r EXCEPT !.h1 = IF newlock.owner = t THEN newlock.count
                                   ELSE 0]]

\* irods_client.stat: a cached entry is served, a fetched one is stored.
IrodsStat(bp) ==
    IF cache[bp].kind # "none" THEN cache[bp] ELSE BackendLookup(bp)

\* The metadata stat() reads for its path: os.stat or irods_client.stat.
StatLookup(path) ==
    LET bp == make_backend_path(encode_ascii_ignore(path)) IN
    IF plugin = "irods" THEN IrodsStat(bp) ELSE BackendLookup(bp)

CacheAfterStat(path) ==
    LET bp == make_backend_path(encode_ascii_ignore(path)) IN
    IF plugin = "irods" /\ StatLookup(path).kind # "none"
    THEN [cache EXCEPT ![bp] = StatLookup(path)]
    ELSE cache

\* afsstat(directory=..., path=driver_path, ...)
AfsStat(path, sb) ==
    [kind |-> sb.kind, path |-> make_driver_path(encode_ascii_ignore(path)),
     ver |-> sb.ver]

\* stat(path), inside the section.  A missing path makes os.stat raise before
\* _unlock runs; irods_client.stat either raises there too or hands back
\* None, on which sb.directory fails after _unlock.  Called by the driver it
\* returns the record; called by on_update_detected the bridge goes on to
\* deliver, and an error leaves on_update_detected as well.
stat(t) ==
    LET f == th[t]
        sb == StatLookup(f.path)
    IN
    /\ f.pc = "cs" /\ f.op = "stat"
    /\ cache' = CacheAfterStat(f.path)
    /\ IF sb.kind # "none"
       THEN IF f.ctx = "bridge"
            THEN /\ lock' = Released
                 /\ th' = [th EXCEPT ![t] =
                       [f EXCEPT !.pc = "deliver", !.st = AfsStat(f.path, sb)]]
                 /\ ret' = ret
            ELSE Finish(t, Released,
                        [Returned(f) EXCEPT !.st = AfsStat(f.path, sb)])
       ELSE \E unlocked \in IF plugin = "irods" THEN BOOLEAN ELSE {FALSE} :
               Finish(t, IF unlocked THEN Released ELSE lock,
                      Raised(f, IF unlocked THEN "AttributeError" ELSE "OSError"))
    /\ UNCHANGED <<conv, config, fs, notification_cb, watchState, queue, log,
                   invalidated, nops, nchg>>

\* exists(path)
exists(t) ==
    LET f == th[t]
        bp == make_backend_path(encode_ascii_ignore(f.path))
    IN
    /\ f.pc = "cs" /\ f.op = "exists"
    /\ Finish(t, Released,
              [Returned(f) EXCEPT !.flag = BackendLookup(bp).kind # "none"])
    /\ UNCHANGED <<conv, config, fs, cache, notification_cb, watchState, queue, log,
                   invalidated, nops, nchg>>

\* list_dir(dirpath): os.listdir / irods_client.list_dir raise on a missing
\* path and on a plain file, before _unlock runs.
list_dir(t) ==
    LET f == th[t]
        bp == make_backend_path(encode_ascii_ignore(f.path))
        k == BackendLookup(bp).kind
    IN
    /\ f.pc = "cs" /\ f.op = "list_dir"
    /\ IF k = "dir"
       THEN Finish(t, Released, [Returned(f) EXCEPT !.flag = TRUE])
       ELSE Finish(t, lock, Raised(f, "OSError"))
    /\ UNCHANGED <<conv, config, fs, cache, notification_cb, watchState, queue, log,
                   invalidated, nops, nchg>>

\* is_dir(dirpath).  local: os.path.exists, then (a step later) os.stat;
\* irods: one irods_client.is_dir call.
is_dir(t) ==
    LET f == th[t]
        bp == make_backend_path(encode_ascii_ignore(f.path))
        k == BackendLookup(bp).kind
    IN
    /\ f.pc = "cs" /\ f.op = "is_dir"
    /\ IF plugin = "local" /\ k # "none"
       THEN /\ th' = [th EXCEPT ![t].pc = "cs2"]
            /\ UNCHANGED <<lock, ret>>
       ELSE Finish(t, Released, [Returned(f) EXCEPT !.flag = (k = "dir"),
                                                    !.missing = (k = "none")])
    /\ UNCHANGED <<conv, config, fs, cache, notification_cb, watchState, queue, log,
                   invalidated, nops, nchg>>

\* is_dir of the local plugin, second half: sb = os.stat(localfs_path).
is_dir_stat(t) ==
    LET f == th[t]
        bp == make_backend_path(encode_ascii_ignore(f.path))
        k == BackendLookup(bp).kind
    IN
    /\ f.pc = "cs2" /\ f.op = "is_dir"
    /\ IF k # "none"
       THEN Finish(t, Released, [Returned(f) EXCEPT !.flag = (k = "dir")])
       ELSE Finish(t, lock, [Raised(f, "OSError") EXCEPT !.missing = (f.ctx = "drv")])
    /\ UNCHANGED <<conv, config, fs, cache, notification_cb, watchState, queue, log,
                   invalidated, nops, nchg>>

\* read without the try/except: the backend error leaves the method, and
\* _unlock is not reached.
read_Raises(t) ==
    LET f == th[t]
        bp == make_backend_path(encode_ascii_ignore(f.path))
        k == BackendLookup(bp).kind
    IN
    /\ f.pc = "cs" /\ f.op = "read"
    /\ \E ioerror \in IF k = "file" THEN BOOLEAN ELSE {TRUE} :
          IF ioerror
          THEN Finish(t, lock, [Raised(f, "IOError") EXCEPT !.flag = TRUE])
          ELSE Finish(t, Released, [Returned(f) EXCEPT !.buf = "data"])
    /\ UNCHANGED <<conv, config, fs, cache, notification_cb, watchState, queue, log,
                   invalidated, nops, nchg>>

\* read(filepath, offset, size): any backend error is caught and logged, buf
\* stays None; a plain file that exists can be read or fail with an I/O error.
read(t) ==
    LET f == th[t]
        bp == make_backend_path(encode_ascii_ignore(f.path))
        k == BackendLookup(bp).kind
    IN
    /\ f.pc = "cs" /\ f.op = "read"
    /\ \E ioerror \in IF k = "file" THEN BOOLEAN ELSE {TRUE} :
          Finish(t, Released,
                 [Returned(f) EXCEPT !.buf = IF ioerror THEN "None" ELSE "data",
                                     !.flag = ioerror])
    /\ UNCHANGED <<conv, config, fs, cache, notification_cb, watchState, queue, log,
                   invalidated, nops, nchg>>

\* irods_client.clear_stat_cache(path): one key, or all of them for None.
ClearStatCache(key) ==
    IF key = <<>> THEN [k \in CacheKeys |-> NoEntry]
    ELSE [k \in CacheKeys |-> IF k = key THEN NoEntry ELSE cache[k]]

\* clear_cache as a no-op (the body of the local plugin's clear_cache).
CacheAfterClear_Noop(path) == cache

\* The cache after clear_cache(path) of the irods plugin: "if path:" sends
\* None and the empty string to the clear-everything branch.
CacheAfterClear(path) ==
    IF path # <<>>
    THEN ClearStatCache(make_backend_path(encode_ascii_ignore(path)))
    ELSE ClearStatCache(<<>>)

\* ------------------------------------------- change-notification bridge
\* A handler with the two move events mapped the wrong way round.
HandlerOperation_MovedSwapped(raw) ==
    CASE raw = "IN_CREATE" -> "create"
      [] raw = "IN_DELETE" -> "remove"
      [] raw = "IN_MODIFY" -> "modify"
      [] raw = "IN_ATTRIB" -> "modify"
      [] raw = "IN_MOVED_FROM" -> "create"
      [] raw = "IN_MOVED_TO" -> "remove"

\* InotifyEventHandler.process_IN_*: the operation each raw event becomes.
HandlerOperation(raw) ==
    CASE raw = "IN_CREATE" -> "create"
      [] raw = "IN_DELETE" -> "remove"
      [] raw = "IN_MODIFY" -> "modify"
      [] raw = "IN_ATTRIB" -> "modify"
      [] raw = "IN_MOVED_FROM" -> "remove"
      [] raw = "IN_MOVED_TO" -> "create"

\* on_update_detected at "if self.notification_cb:": without an observer it
\* returns; for "remove" it builds the entry and calls the observer; for
\* "create" and "modify" it calls self.stat(driver_path) first.
BridgeCheck(t, f, newlock) ==
    IF notification_cb = "None"
    THEN Finish(t, newlock, Returned([f EXCEPT !.op = "none", !.cbok = FALSE]))
    ELSE /\ lock' = newlock
         /\ ret' = [ret EXCEPT ![t] = NoRet]
         /\ th' = [th EXCEPT ![t] =
               IF f.operation = "remove"
               THEN [f EXCEPT !.pc = "deliver", !.op = "none", !.st = NoStat]
               ELSE [f EXCEPT !.pc = "lock", !.op = "stat"]]

\* The keys whose cached entry an invalidation for path covers.
KeysCleared(path) == IF path # <<>> THEN {CacheKey(path)} ELSE CacheKeys

Invalidate(f) ==
    invalidated' = [k \in CacheKeys |->
        IF k \in KeysCleared(f.path) /\ f.ver > invalidated[k]
        THEN f.ver ELSE invalidated[k]]

\* The raw-event thread takes the next raw event and enters
\* on_update_detected(operation, pathname).  The irods plugin begins with
\* self.clear_cache(driver_path); the local plugin has no such call (and no
\* cache).
on_update_detected ==
    LET e == Head(queue)
        r == ret["evt"]
        f == [IdleFrame EXCEPT
                 !.ctx = "bridge",
                 !.raw = e.raw,
                 !.operation = HandlerOperation(e.raw),
                 !.path = make_driver_path(encode_ascii_ignore(e.pathname)),
                 !.ver = e.ver,
                 !.h0 = HoldCount("evt"),
                 !.cbok = TRUE,
                 !.n0 = Len(log),
                 !.prev = [raw |-> r.raw, path |-> r.path, cbok |-> r.cbok,
                           n0 |-> r.n0]]
    IN
    /\ th["evt"].pc = "idle" /\ queue # <<>>
    /\ SourceRunning
    /\ queue' = Tail(queue)
    /\ IF plugin = "irods"
       THEN /\ th' = [th EXCEPT !["evt"] =
                  [f EXCEPT !.pc = "lock", !.op = "clear_cache"]]
            /\ ret' = [ret EXCEPT !["evt"] = NoRet]
            /\ UNCHANGED <<lock, invalidated>>
       ELSE /\ BridgeCheck("evt", f, lock)
            /\ Invalidate(f)
    /\ UNCHANGED <<conv, config, fs, cache, notification_cb, watchState, log, nops,
                   nchg>>

\* clear_cache(path) of the irods plugin, inside the section.
clear_cache(t) ==
    LET f == th[t] IN
    /\ f.pc = "cs" /\ f.op = "clear_cache"
    /\ cache' = CacheAfterClear(f.path)
    /\ IF f.ctx = "bridge"
       THEN /\ BridgeCheck(t, f, Released)
            /\ Invalidate(f)
       ELSE /\ Finish(t, Released, Returned(f))
            /\ UNCHANGED invalidated
    /\ UNCHANGED <<conv, config, fs, notification_cb, watchState, queue, log, nops,
                   nchg>>

\* A batch that files a "create" entry under modified as well.
Batch_Mixed(f) ==
    LET entry == [path |-> f.path, stat |-> f.st] IN
    CASE f.operation = "remove" ->
            [modified |-> <<>>, created |-> <<>>, removed |-> <<entry>>]
      [] f.operation = "create" ->
            [modified |-> <<entry>>, created |-> <<entry>>, removed |-> <<>>]
      [] f.operation = "modify" ->
            [modified |-> <<entry>>, created |-> <<>>, removed |-> <<>>]

\* The batch on_update_detected passes to the observer.
Batch(f) ==
    LET entry == [path |-> f.path, stat |-> f.st] IN
    CASE f.operation = "remove" ->
            [modified |-> <<>>, created |-> <<>>, removed |-> <<entry>>]
      [] f.operation = "create" ->
            [modified |-> <<>>, created |-> <<entry>>, removed |-> <<>>]
      [] f.operation = "modify" ->
            [modified |-> <<entry>>, created |-> <<>>, removed |-> <<>>]

\* self.notification_cb(...): the attribute is read again; None is not
\* callable.  The observer then runs on the raw-event thread.
Deliver(t) ==
    LET f == th[t] IN
    /\ f.pc = "deliver"
    /\ IF notification_cb = "None"
       THEN /\ Finish(t, lock, Raised([f EXCEPT !.op = "none", !.cbok = FALSE],
                                      "TypeError"))
            /\ log' = log
       ELSE /\ th' = [th EXCEPT ![t].pc = "in_cb"]
            /\ log' = Append(log, Batch(f))
            /\ UNCHANGED <<lock, ret>>
    /\ UNCHANGED <<conv, config, fs, cache, notification_cb, watchState, queue,
                   invalidated, nops, nchg>>

\* The observer, running on the raw-event thread, calls a guarded operation
\* of the plugin for the path of the entry it was given.  clear_cache of the
\* local plugin returns at once.
CbCall(t, op) ==
    LET f == th[t] IN
    /\ f.pc = "in_cb" /\ ~f.reentered
    /\ th' = [th EXCEPT ![t] =
          IF op = "clear_cache" /\ plugin = "local"
          THEN [f EXCEPT !.reentered = TRUE]
          ELSE [f EXCEPT !.pc = "lock", !.op = op, !.ctx = "cb"]]
    /\ UNCHANGED <<conv, config, fs, cache, notification_cb, lock, watchState,
                   queue, ret, log, invalidated, nops, nchg>>

\* The observer returns, and so does on_update_detected.
CallbackReturn(t) ==
    LET f == th[t] IN
    /\ f.pc = "in_cb"
    /\ Finish(t, lock, Returned(f))
    /\ UNCHANGED <<conv, config, fs, cache, notification_cb, watchState, queue, log,
                   invalidated, nops, nchg>>

\* set_notification_cb(notification_cb)
set_notification_cb(cb) ==
    /\ th["drv"].pc = "idle" /\ nops < MaxOps
    /\ nops' = nops + 1
    /\ notification_cb' = cb
    /\ ret' = [ret EXCEPT !["drv"] =
          [NoRet EXCEPT !.op = "set_notification_cb", !.status = "ok",
                        !.buf = cb,
                        !.h0 = HoldCount("drv"), !.h1 = HoldCount("drv")]]
    /\ UNCHANGED <<conv, config, fs, cache, lock, watchState, queue, th, log,
                   invalidated, nchg>>

\* --------------------------------------------------- connect and close
WatchNow ==
    [watch_directory |-> watch_directory, notifier |-> notifier,
     watches |-> watches, session |-> session, released |-> released]

\* The plugin holds a live backend session / an armed watch.
Connected(w) ==
    IF plugin = "local" THEN w.watches /\ w.notifier = "running"
    ELSE w.session = "connected"

\* close() run on the state w: the set of ways it can end, each with the
\* error raised ("none" for a normal return) and the state it leaves.
\* local: rm_watch when watch_manager and watch_directory are truthy (reading
\* an attribute never assigned raises AttributeError); then notifier.stop(),
\* which joins the notifier thread; stopping a notifier already stopped may
\* fail in the library.  irods: self.irods.close() whenever self.irods is set.
CloseOutcomes(w) ==
    IF plugin = "irods"
    THEN {[exc |-> "none",
           w |-> [w EXCEPT !.session = "closed", !.released.session = @ + 1]]}
    ELSE IF role # "DISCOVER" THEN {[exc |-> "none", w |-> w]}
    ELSE IF w.watch_directory = "unset"
    THEN {[exc |-> "AttributeError", w |-> w]}
    ELSE LET w1 == [w EXCEPT !.watches = FALSE, !.released.rm_watch = @ + 1,
                             !.released.stop = @ + 1]
         IN CASE w.notifier = "running" ->
                   {[exc |-> "none", w |-> [w1 EXCEPT !.notifier = "stopped"]]}
              [] w.notifier = "stopped" ->
                   {[exc |-> x, w |-> w1] : x \in {"none", "OSError"}}
              [] OTHER -> {[exc |-> "RuntimeError", w |-> w1]}

\* A stop() that does not wait for the notifier thread.
CanJoin_NoJoin(w) == TRUE

\* notifier.stop() joins the notifier thread: close() gets past it only once
\* the raw-event thread is between events.
CanJoin(w) ==
    (plugin = "local" /\ role = "DISCOVER" /\ w.watch_directory = "set"
        /\ w.notifier = "running")
    => th["evt"].pc = "idle"

SetWatch(w) ==
    /\ watch_directory' = w.watch_directory
    /\ notifier' = w.notifier
    /\ watches' = w.watches
    /\ session' = w.session
    /\ released' = w.released

DrvDone(r) ==
    /\ th["drv"].pc = "idle" /\ nops < MaxOps
    /\ nops' = nops + 1
    /\ ret' = [ret EXCEPT !["drv"] =
          [r EXCEPT !.h0 = HoldCount("drv"), !.h1 = HoldCount("drv")]]

\* close()
close ==
    /\ CanJoin(WatchNow)
    /\ \E o \in CloseOutcomes(WatchNow) :
          /\ SetWatch(o.w)
          /\ DrvDone([NoRet EXCEPT
                !.op = "close",
                !.status = IF o.exc = "none" THEN "ok" ELSE "raise",
                !.exc = o.exc,
                !.streak = IF ret["drv"].op = "close"
                           THEN ret["drv"].streak + 1 ELSE 1,
                !.armed0 = IF ret["drv"].op = "close"
                           THEN ret["drv"].armed0 ELSE Connected(WatchNow),
                !.flag = /\ o.exc = "none"
                         /\ ret["drv"].op = "close" => ret["drv"].flag])
    /\ UNCHANGED <<conv, config, fs, cache, notification_cb, lock, queue, th, log,
                   invalidated, nchg>>

\* connect() of the local plugin in DISCOVER role, past the check of the
\* dataset root: the ways arming can go.  notifier.start() raises on a
\* notifier that was started before and may fail in the environment;
\* add_watch may fail too.  "mid" is the state the bare except finds.
ArmOutcomes(w) ==
    {[armed |-> FALSE, mid |-> w]}
    \cup (IF w.notifier = "new"
          THEN {[armed |-> FALSE, mid |-> [w EXCEPT !.notifier = "running"]],
                [armed |-> TRUE,
                 mid |-> [w EXCEPT !.notifier = "running", !.watches = TRUE,
                                   !.watch_directory = "set",
                                   !.released = [rm_watch |-> 0, stop |-> 0,
                                                 session |-> 0]]]}
          ELSE {})

connect_local ==
    /\ plugin = "local"
    /\ IF role # "DISCOVER"
       THEN /\ SetWatch(WatchNow)
            /\ DrvDone([NoRet EXCEPT !.op = "connect", !.status = "ok"])
       ELSE IF ~rootExists
       THEN /\ SetWatch(WatchNow)
            /\ DrvDone([NoRet EXCEPT !.op = "connect", !.status = "raise",
                                     !.exc = "IOError"])
       ELSE \E a \in ArmOutcomes(WatchNow) :
            IF a.armed
            THEN /\ SetWatch(a.mid)
                 /\ DrvDone([NoRet EXCEPT !.op = "connect", !.status = "ok"])
            ELSE /\ CanJoin(a.mid)
                 /\ \E o \in CloseOutcomes(a.mid) :
                       /\ SetWatch(o.w)
                       /\ DrvDone([NoRet EXCEPT
                             !.op = "connect", !.armfail = TRUE,
                             !.status = IF o.exc = "none" THEN "ok" ELSE "raise",
                             !.exc = o.exc])
    /\ UNCHANGED <<conv, config, fs, cache, notification_cb, lock, queue, th, log,
                   invalidated, nchg>>

\* connect() of the irods plugin: self.irods.connect(), which may fail, then
\* in DISCOVER role the check of the dataset root.
connect_irods ==
    /\ plugin = "irods"
    /\ \E up \in BOOLEAN :
          IF ~up
          THEN /\ SetWatch(WatchNow)
               /\ DrvDone([NoRet EXCEPT !.op = "connect", !.status = "raise",
                                        !.exc = "ConnectionError"])
          ELSE /\ SetWatch([WatchNow EXCEPT
                     !.session = "connected",
                     !.released = [rm_watch |-> 0, stop |-> 0, session |-> 0]])
               /\ IF role = "DISCOVER" /\ ~rootExists
                  THEN DrvDone([NoRet EXCEPT !.op = "connect",
                                   !.status = "raise", !.exc = "IOError"])
                  ELSE DrvDone([NoRet EXCEPT !.op = "connect", !.status = "ok"])
    /\ UNCHANGED <<conv, config, fs, cache, notification_cb, lock, queue, th, log,
                   invalidated, nchg>>

\* ------------------------------------------------------ specification
Next ==
    \/ \E f \in Files : BackendCreate(f)
    \/ \E f \in Files : BackendModify(f)
    \/ \E f \in Files : BackendDelete(f)
    \/ \E a, b \in Files : BackendMove(a, b)
    \/ BackendAttribRoot
    \/ \E op \in GuardedOps, path \in DrvPaths \cup {<<>>} : DrvCall(op, path)
    \/ \E cb \in {"None", "cb"} : set_notification_cb(cb)
    \/ connect_local
    \/ connect_irods
    \/ close
    \/ on_update_detected
    \/ \E t \in Threads : Lock(t)
    \/ \E t \in Threads : stat(t)
    \/ \E t \in Threads : exists(t)
    \/ \E t \in Threads : list_dir(t)
    \/ \E t \in Threads : is_dir(t)
    \/ \E t \in Threads : is_dir_stat(t)
    \/ \E t \in Threads : read(t)
    \/ \E t \in Threads : clear_cache(t)
    \/ \E t \in Threads : Deliver(t)
    \/ \E t \in Threads, op \in GuardedOps : CbCall(t, op)
    \/ \E t \in Threads : CallbackReturn(t)

Spec == Init /\ [][Next]_vars

\* ------------------------------------------- path conversions (PathSpec)
pluginVars ==
    <<config, fs, cache, notification_cb, lock, watchState, queue, th, ret,
      log, invalidated, nops, nchg>>

RawKinds ==
    {"IN_CREATE", "IN_DELETE", "IN_MODIFY", "IN_ATTRIB", "IN_MOVED_FROM",
     "IN_MOVED_TO"}

\* A constructed plugin and one input: a canonical path to take to the
\* backend and back, or a raw event on a pathname below the dataset root.
PathInit ==
    /\ Constructed
    /\ role = "DISCOVER" /\ rootExists
    /\ \/ \E p \in RootedPaths :
             conv = [NoConv EXCEPT !.stage = "canonical", !.p = p]
       \/ \E q \in RootedPaths, raw \in RawKinds :
             conv = [NoConv EXCEPT !.stage = "event", !.p = dataset_root \o q,
                                   !.raw = raw]

\* _make_localfs_path / _make_irods_path applied to a canonical path.
to_backend_path ==
    /\ conv.stage = "canonical"
    /\ conv' = [conv EXCEPT !.stage = "backend", !.bp = make_backend_path(conv.p)]
    /\ UNCHANGED pluginVars

\* _make_driver_path applied to the backend path.
to_canonical_path ==
    /\ conv.stage = "backend"
    /\ conv' = [conv EXCEPT !.stage = "done", !.dp = make_driver_path(conv.bp)]
    /\ UNCHANGED pluginVars

\* The paths on_update_detected(operation, pathname) works with: the entry
\* path driver_path, and for "create" and "modify" the record of
\* self.stat(driver_path), which looks up make_backend_path(driver_path) and
\* raises when nothing is there.
bridge_entry ==
    LET e == make_driver_path(encode_ascii_ignore(conv.p))
        bp == make_backend_path(encode_ascii_ignore(e))
    IN
    /\ conv.stage = "event"
    /\ IF HandlerOperation(conv.raw) = "remove"
       THEN conv' = [conv EXCEPT !.stage = "entry", !.dp = e, !.st = NoStat]
       ELSE \E kind \in {"none", "file", "dir"} :
               conv' = IF kind = "none"
                       THEN [conv EXCEPT !.stage = "raised", !.dp = e, !.bp = bp]
                       ELSE [conv EXCEPT
                               !.stage = "entry", !.dp = e, !.bp = bp,
                               !.st = AfsStat(e, [kind |-> kind, ver |-> 0])]
    /\ UNCHANGED pluginVars

PathNext ==
    \/ to_backend_path
    \/ to_canonical_path
    \/ bridge_entry

PathSpec == PathInit /\ [][PathNext]_vars

\* ================================================================ claims

\* C1: when the bridge handles a "create" or "modify" raw event with an
\* observer registered and its re-stat finds the path gone, the event is
\* swallowed: on_update_detected returns normally and no error reaches the
\* raw-event thread.
C1_VanishedEventSwallowed ==
    (/\ ret["evt"].op = "on_update_detected"
     /\ ret["evt"].operation \in {"create", "modify"}
     /\ ret["evt"].missing)
    => ret["evt"].status = "ok"

\* C2: close() is idempotent: after two close() calls in a row on a connected
\* DISCOVER-role plugin neither call has raised, and the watch, the notifier
\* and the backend session have each been released exactly once in total.
C2_CloseIdempotent ==
    (/\ role = "DISCOVER"
     /\ ret["drv"].op = "close"
     /\ ret["drv"].streak = 2
     /\ ret["drv"].armed0)
    => /\ ret["drv"].flag
       /\ IF plugin = "local"
          THEN released.rm_watch = 1 /\ released.stop = 1
          ELSE released.session = 1

\* C3: close() is safe in every lifecycle state: on a DISCOVER-role plugin
\* that was never connected, or whose connect() failed before a watch was
\* added, close() returns without raising.
C3_CloseSafeBeforeConnect ==
    (/\ role = "DISCOVER"
     /\ ret["drv"].op = "close"
     /\ watch_directory = "unset")
    => ret["drv"].status = "ok"

\* C4: in DISCOVER role, when arming the raw-event source fails in connect(),
\* connect() runs close() and then fails with the arming error; so connect()
\* never returns normally while the watch is not armed.
C4_ArmFailurePropagates ==
    (/\ role = "DISCOVER"
     /\ plugin = "local"
     /\ ret["drv"].op = "connect")
    => /\ ret["drv"].armfail =>
             ret["drv"].status = "raise" /\ ret["drv"].exc = "ArmError"
       /\ ret["drv"].status = "ok" => watches

\* C5: mutual exclusion: at most one thread at a time is inside the guarded
\* section of stat, exists, list_dir, is_dir, read or clear_cache, and the
\* thread inside is the one that holds the guard.
C5_MutualExclusion ==
    /\ ~(InSection("drv") /\ InSection("evt"))
    /\ \A t \in Threads : InSection(t) => lock.owner = t /\ lock.count > 0

\* C5 witness: the driver is inside a section while the raw-event thread
\* waits at _lock.
C5_Witness ==
    /\ InSection("drv")
    /\ th["evt"].pc = "lock"

\* C6: the observer runs while the raw-event thread holds the guard, so never
\* while another thread is inside a guarded section.
C6_CallbackUnderGuard ==
    th["evt"].pc = "in_cb"
    => /\ lock.owner = "evt"
       /\ ~InSection("drv")

C8_ExactlyOneKindPerBatch ==
    \A i \in 1..Len(log) :
        LET b == log[i]
            lens == <<Len(b.modified), Len(b.created), Len(b.removed)>>
        IN /\ lens[1] + lens[2] + lens[3] = 1
           /\ Cardinality({k \in 1..3 : lens[k] # 0}) = 1

\* C8 witness: the observer has been invoked with a removed batch and with a
\* created or modified batch.
C8_Witness ==
    /\ \E i \in 1..Len(log) : Len(log[i].removed) = 1
    /\ \E i \in 1..Len(log) : Len(log[i].removed) = 0

RemovedBatch(path) ==
    [modified |-> <<>>, created |-> <<>>,
     removed |-> <<[path |-> path, stat |-> NoStat]>>]

IsCreatedBatch(b, path) ==
    /\ b.modified = <<>> /\ b.removed = <<>>
    /\ Len(b.created) = 1
    /\ b.created[1].path = path
    /\ b.created[1].stat.kind # "none"

\* The raw-event thread has just handled IN_MOVED_TO(B) right after
\* IN_MOVED_FROM(A), and found an observer at every read of notification_cb.
MovePairHandled ==
    /\ ret["evt"].op = "on_update_detected"
    /\ ret["evt"].raw = "IN_MOVED_TO" /\ ret["evt"].cbok
    /\ ret["evt"].prev.raw = "IN_MOVED_FROM" /\ ret["evt"].prev.cbok

C10_DegradedRead ==
    (ret["drv"].op = "read" /\ ret["drv"].flag)
    => /\ ret["drv"].status = "ok"
       /\ ret["drv"].buf = "None"
       /\ ret["drv"].h1 = ret["drv"].h0

\* C10 witness: a read that met an I/O error has returned and the guard is
\* free for the other thread.
C10_Witness ==
    /\ ret["drv"].op = "read" /\ ret["drv"].flag
    /\ ret["drv"].status = "ok"
    /\ lock.owner = "none"

\* The dataset root occurs in path (at its start or further in).
ContainsRoot(path) ==
    \E i \in 1..Len(path) : startswith(SubSeq(path, i, Len(path)), dataset_root)

\* C11: round-trip law: every canonical path rooted at "/", also one whose
\* first component equals or extends the text of the dataset root, comes back
\* unchanged from to_canonical_path(to_backend_path(p)).
C11_RoundTripEveryPath ==
    conv.stage = "done" => conv.dp = conv.p

\* C12: restricted round-trip: a canonical path that does not contain the
\* dataset root comes back unchanged from
\* to_canonical_path(to_backend_path(p)).
C12_RoundTripWithoutRoot ==
    (conv.stage = "done" /\ ~ContainsRoot(conv.p)) => conv.dp = conv.p

\* C12 witness: a path of several components without the dataset root has
\* made the round trip through a backend path below the dataset root.
C12_Witness ==
    /\ conv.stage = "done" /\ ~ContainsRoot(conv.p)
    /\ Len(conv.p) = MaxLen
    /\ conv.bp = dataset_root \o conv.p

\* Thread t takes the step that runs the body of clear_cache.
ClearCacheStep(t) ==
    /\ th[t].pc = "cs" /\ th[t].op = "clear_cache"
    /\ th'[t] # th[t]

\* C13: clear_cache called for one path removes exactly that path's cache
\* key and leaves every other cached entry unchanged; the whole store is
\* cleared only when the argument is absent (None passed by the driver).
\* The invalidation the bridge performs for a raw event on path P, the
\* dataset root (canonical path "") included, removes only P's entry.
C13_ClearCacheOneKey ==
    [][\A t \in Threads :
          ClearCacheStep(t) =>
             IF th[t].ctx = "drv" /\ th[t].path = <<>>
             THEN \A k \in CacheKeys : cache'[k] = NoEntry
             ELSE \A k \in CacheKeys :
                     cache'[k] = IF k = CacheKey(th[t].path) THEN NoEntry
                                 ELSE cache[k]]_vars

\* C14: when a raw event is handled and some read of notification_cb finds no
\* observer (none was registered, or another thread set it to None while the
\* event was being handled), the batch is silently dropped: the observer is
\* not invoked and on_update_detected returns without an error.
C14_NoObserverSilentDrop ==
    (ret["evt"].op = "on_update_detected" /\ ~ret["evt"].cbok)
    => /\ ret["evt"].status = "ok"
       /\ Len(log) = ret["evt"].n0

\* C15: in every change entry delivered to the observer the stat is absent
\* if and only if the entry is a removal, and the stat record of a created or
\* modified entry carries the entry's own canonical path.
C15_EntryMetadata ==
    conv.stage = "entry" =>
        /\ conv.st.kind = "none" <=> HandlerOperation(conv.raw) = "remove"
        /\ HandlerOperation(conv.raw) # "remove" => conv.st.path = conv.dp

\* C16: is_dir(path) returns False and raises no error whenever the path is
\* not in the backend, also when the path is removed during the call,
\* between the existence check and the stat.
C16_IsDirFalseWhenMissing ==
    (ret["drv"].op = "is_dir" /\ ret["drv"].missing)
    => /\ ret["drv"].status = "ok"
       /\ ~ret["drv"].flag

\* C17: connect() fails with a connection error whenever the dataset root is
\* not in the backend, in DISCOVER role and in the passive role alike; it
\* never returns normally on a plugin whose dataset root is missing.
C17_ConnectFailsWithoutRoot ==
    (ret["drv"].op = "connect" /\ ~rootExists)
    => /\ ret["drv"].status = "raise"
       /\ ret["drv"].exc \in {"IOError", "ConnectionError"}

\* close() has returned on a local plugin in DISCOVER role whose watch was
\* armed: the watch was removed and the notifier stopped.
WatchClosed ==
    /\ plugin = "local" /\ role = "DISCOVER"
    /\ released.stop >= 1

\* C18: close() stops the active watch: once close() has returned on a
\* connected DISCOVER-role plugin the observer is never invoked again,
\* whatever changes in the backend afterwards.
C18_NoBatchAfterClose ==
    [][WatchClosed => log' = log]_vars

\* C18 witness: with an observer registered, the first change of /d/x was
\* delivered; close() was then the driver's last call, and the second change
\* of /d/x, made after it, is neither queued nor delivered.
C18_Witness ==
    /\ WatchClosed /\ notification_cb = "cb"
    /\ ret["drv"].op = "close" /\ ret["drv"].status = "ok"
    /\ fs[FileX].ver = 2
    /\ Len(log) = 1 /\ Len(log[1].modified) = 1
    /\ log[1].modified[1].stat.ver = 1
    /\ queue = <<>> /\ th["evt"].pc = "idle"

\* C19: deadlock freedom on re-entry: a guarded operation the observer calls
\* from the raw-event thread always gets the guard in the end, so the
\* observer returns.  It never waits for a guard whose holder is a thread
\* with no call in progress, also after driver queries that failed: such a
\* holder never releases, and the wait never ends.
C19_ReentryNeverStuck ==
    ~(/\ th["evt"].ctx = "cb" /\ th["evt"].pc = "lock"
      /\ lock.owner = "drv"
      /\ th["drv"].pc = "idle")

\* C20: guard balance: every guarded operation leaves the calling thread's
\* hold count on the guard as it found it, whether it returns or raises; so
\* whenever no guarded operation is in progress the guard is free.
C20_GuardBalance ==
    /\ \A t \in Threads :
          ret[t].op \in GuardedOps => ret[t].h1 = ret[t].h0
    /\ (\A t \in Threads : th[t].pc \notin {"lock", "cs", "cs2"})
       => lock.owner = "none"

====
